---- MODULE Spec2Model ----
(***************************************************************************)
(* Model of the data source tencentcloud_sqlserver_basic_instances:        *)
(* dataSourceTencentCloudSqlserverBasicInstanceRead and the parts of the   *)
(* schema it reads.  The SQL Server service, the tag service, the plugin   *)
(* SDK's ResourceData and writeToFile are collaborators: each call to one  *)
(* of them is a step whose result is chosen by the environment.            *)
(***************************************************************************)
EXTENDS Integers, Sequences, FiniteSets, TLC

VARIABLES
    pc,            \* position of the read handler
    cfg,           \* the configuration held by d (schema lines 41-65)
    filters,       \* the locals id, projectId, vpcId, subnetId
    instanceList,  \* result of DescribeSqlserverInstances
    i,             \* position of the range loop in instanceList (1-based)
    list,          \* the local list
    ids,           \* the local ids
    dId,           \* d's ID: <<>> while unset, <<s>> once SetId(s) ran
    dList,         \* d's instance_list: <<>> while unset, <<l>> once set
    file,          \* calls of writeToFile made by this read
    ret,           \* what the read returned
    trace,         \* collaborator calls and effects of this read, in order
    later          \* TRUE once a read has returned and another one has begun

vars == <<pc, cfg, filters, instanceList, i, list, ids, dId, dList, file, ret, trace, later>>

-----------------------------------------------------------------------------
(* Bounds *)

MaxInstances == 2

-----------------------------------------------------------------------------
(* Go values *)

\* A pointer is <<>> (nil) or <<v>>.
Nil == <<>>
Ptr(v) == <<v>>
Deref(p) == p[1]

\* An optional attribute of the configuration: set or not, with its value
\* (the zero value of its type when it is not set).
Attr(isSet, val) == [set |-> isSet, val |-> val]

\* schema.ResourceData.GetOk as the plugin SDK defines it: the value (the zero
\* value when the attribute is not set) and ok = set and not the zero value.
GetOk(a, zero) ==
    [v  |-> IF a.set THEN a.val ELSE zero,
     ok |-> a.set /\ a.val # zero]

\* schema.ResourceData.Get: the value, the zero value when not set.
Get(a, zero) == IF a.set THEN a.val ELSE zero

COMMON_PAYTYPE_PREPAID == "PREPAID"
COMMON_PAYTYPE_POSTPAID == "POSTPAID_BY_HOUR"

\* The last argument of DescribeSqlserverInstances.
InstanceTypeArg == 1

Region == "ap-guangzhou"

-----------------------------------------------------------------------------
(* Inputs: configurations and collaborator responses *)

\* Configurations: each optional argument absent or set.  project_id 0 is the
\* default project of an account.
Configs ==
    [id                 : {Attr(FALSE, ""), Attr(TRUE, "mssql-a")},
     project_id         : {Attr(FALSE, 0), Attr(TRUE, 0), Attr(TRUE, 1)},
     vpc_id             : {Attr(FALSE, ""), Attr(TRUE, "vpc-a")},
     subnet_id          : {Attr(FALSE, ""), Attr(TRUE, "subnet-a")},
     result_output_file : {Attr(FALSE, ""), Attr(TRUE, ""), Attr(TRUE, "out.json")}]

Suffix == <<"a", "b", "c", "d", "e", "f">>

\* A DBInstance of the listing.  InstanceId and PayMode are the two fields the
\* handler dereferences, so they are pointers; the other fields are handed on
\* as they are and stand for their pointees.
DBInstance(n, instanceId, payMode) ==
    [InstanceId   |-> instanceId,
     Name         |-> "name-" \o Suffix[n],
     ProjectId    |-> 100 + n,
     Storage      |-> 200 + n,
     Memory       |-> 300 + n,
     Zone         |-> "zone-" \o Suffix[n],
     CreateTime   |-> "created-" \o Suffix[n],
     UniqVpcId    |-> "vpc-" \o Suffix[n],
     UniqSubnetId |-> "subnet-" \o Suffix[n],
     Version      |-> "version-" \o Suffix[n],
     Vip          |-> "vip-" \o Suffix[n],
     Vport        |-> 400 + n,
     UsedStorage  |-> 500 + n,
     Status       |-> 600 + n,
     Cpu          |-> 700 + n,
     PayMode      |-> payMode]

\* The instances the listing can return: PayMode 1, 0, negative, an unknown
\* code, a nil PayMode and a nil InstanceId.
Instances ==
    { DBInstance(1, Ptr("mssql-a"), Ptr(1)),
      DBInstance(2, Ptr("mssql-b"), Ptr(0)),
      DBInstance(3, Ptr("mssql-c"), Ptr(-1)),
      DBInstance(4, Ptr("mssql-d"), Ptr(2)),
      DBInstance(5, Ptr("mssql-e"), Nil),
      DBInstance(6, Nil, Ptr(1)) }

SeqsUpTo(S, n) == UNION { [1..k -> S] : k \in 0..n }

Listings == SeqsUpTo(Instances, MaxInstances)

\* A tag map is a set of <<key, value>> pairs.
TagMaps == { {}, {<<"test", "test">>} }

\* Results of DescribeResourceTags: (tags, err).
TagResults ==
    { [err |-> "nil", val |-> t] : t \in TagMaps } \cup { [err |-> "ErrTag", val |-> {}] }

Event(op, arg, res) == [op |-> op, arg |-> arg, res |-> res]

-----------------------------------------------------------------------------
(* The handler's pure parts *)

\* Lines 173-186: the filter locals.
FilterArgs(c) ==
    [id        |-> Get(c.id, ""),
     projectId |-> IF GetOk(c.project_id, 0).ok THEN GetOk(c.project_id, 0).v ELSE -1,
     vpcId     |-> IF GetOk(c.vpc_id, "").ok THEN GetOk(c.vpc_id, "").v ELSE "",
     subnetId  |-> IF GetOk(c.subnet_id, "").ok THEN GetOk(c.subnet_id, "").v ELSE ""]

\* Line 187: the arguments of service.DescribeSqlserverInstances.
ListRequest(f) ==
    [id |-> f.id, projectId |-> f.projectId, vpcId |-> f.vpcId,
     subnetId |-> f.subnetId, instanceType |-> InstanceTypeArg]

\* Mutant of ChargeType: every positive PayMode counts as prepaid.
ChargeType_positive(payMode) ==
    IF payMode >= 1 THEN COMMON_PAYTYPE_PREPAID ELSE COMMON_PAYTYPE_POSTPAID

\* Lines 212-216.
ChargeType(payMode) ==
    IF payMode = 1 THEN COMMON_PAYTYPE_PREPAID ELSE COMMON_PAYTYPE_POSTPAID

\* Mutant of ListItem: storage and used_storage exchanged.
ListItem_swapped(v, tagList) ==
    [id                |-> v.InstanceId,
     name              |-> v.Name,
     project_id        |-> v.ProjectId,
     storage           |-> v.UsedStorage,
     memory            |-> v.Memory,
     availability_zone |-> v.Zone,
     create_time       |-> v.CreateTime,
     vpc_id            |-> v.UniqVpcId,
     subnet_id         |-> v.UniqSubnetId,
     engine_version    |-> v.Version,
     vip               |-> v.Vip,
     vport             |-> v.Vport,
     used_storage      |-> v.Storage,
     status            |-> v.Status,
     cpu               |-> v.Cpu,
     charge_type       |-> ChargeType(Deref(v.PayMode)),
     tags              |-> tagList]

\* Lines 195-222: the entry built for instance v with its tags.
ListItem(v, tagList) ==
    [id                |-> v.InstanceId,
     name              |-> v.Name,
     project_id        |-> v.ProjectId,
     storage           |-> v.Storage,
     memory            |-> v.Memory,
     availability_zone |-> v.Zone,
     create_time       |-> v.CreateTime,
     vpc_id            |-> v.UniqVpcId,
     subnet_id         |-> v.UniqSubnetId,
     engine_version    |-> v.Version,
     vip               |-> v.Vip,
     vport             |-> v.Vport,
     used_storage      |-> v.UsedStorage,
     status            |-> v.Status,
     cpu               |-> v.Cpu,
     charge_type       |-> ChargeType(Deref(v.PayMode)),
     tags              |-> tagList]

\* Mutant of TagRequest: the call is keyed by the instance's name.
TagRequest_byName(v) ==
    [serviceType |-> "sqlserver", resourceType |-> "instance",
     region |-> Region, resourceId |-> v.Name]

\* Line 217: the arguments of tagService.DescribeResourceTags.
TagRequest(v) ==
    [serviceType |-> "sqlserver", resourceType |-> "instance",
     region |-> Region, resourceId |-> Deref(v.InstanceId)]

\* Mutant of AppendId: the id is put in front.
AppendId_front(s, v) == <<Deref(v.InstanceId)>> \o s

\* Line 224.
AppendId(s, v) == Append(s, Deref(v.InstanceId))

\* Mutant of LoopDone: the loop stops after its first element.
LoopDone_early(k, l) == k > Len(l) \/ k > 1

\* The range loop of line 194 is over once every element was visited.
LoopDone(k, l) == k > Len(l)

RECURSIVE JoinIds(_)
JoinIds(s) == IF s = <<>> THEN "" ELSE (Head(s) \o "-") \o JoinIds(Tail(s))

\* helper.DataResourceIdsHash: a hash of the ids, each followed by "-".  The
\* hash itself is kept symbolic.
DataResourceIdsHash(s) == "hash(" \o JoinIds(s) \o ")"

\* Mutant of ShouldWrite: an empty file name is written to as well.
ShouldWrite_whenSet(c) == c.result_output_file.set

\* Lines 232-233.
ShouldWrite(c) ==
    GetOk(c.result_output_file, "").ok /\ GetOk(c.result_output_file, "").v # ""

-----------------------------------------------------------------------------
(* The read handler, one action per collaborator call or effect on d *)

Init ==
    /\ pc = "idle"
    /\ cfg = [id |-> Attr(FALSE, ""), project_id |-> Attr(FALSE, 0),
              vpc_id |-> Attr(FALSE, ""), subnet_id |-> Attr(FALSE, ""),
              result_output_file |-> Attr(FALSE, "")]
    /\ filters = FilterArgs(cfg)
    /\ instanceList = <<>>
    /\ i = 1
    /\ list = <<>>
    /\ ids = <<>>
    /\ dId = <<>>
    /\ dList = <<>>
    /\ file = <<>>
    /\ ret = "none"
    /\ trace = <<>>
    /\ later = FALSE

\* Lines 164-186: the framework calls the handler with a fresh d built from a
\* configuration; the handler reads its filter arguments.
ReadBegin ==
    /\ pc \in {"idle", "done"}
    /\ \E c \in Configs :
          /\ cfg' = c
          /\ filters' = FilterArgs(c)
    /\ pc' = "list"
    /\ instanceList' = <<>>
    /\ i' = 1
    /\ list' = <<>>
    /\ ids' = <<>>
    /\ dId' = <<>>
    /\ dList' = <<>>
    /\ file' = <<>>
    /\ ret' = "none"
    /\ trace' = <<>>
    /\ later' = (pc = "done")

\* Mutant of ListError: the error is dropped and the loop runs on the
\* (empty) result.
ListError_ignored ==
    /\ ret' = ret
    /\ pc' = "loop"
    /\ UNCHANGED instanceList

\* Lines 188-190: the listing failed.
ListError ==
    /\ ret' = "ErrList"
    /\ pc' = "done"
    /\ UNCHANGED instanceList

\* Lines 187-193: the listing call and its outcome.
DescribeSqlserverInstances ==
    /\ pc = "list"
    /\ \/ /\ trace' = Append(trace, Event("DescribeSqlserverInstances", ListRequest(filters), "ErrList"))
          /\ ListError
       \/ /\ trace' = Append(trace, Event("DescribeSqlserverInstances", ListRequest(filters), "nil"))
          /\ \E l \in Listings : instanceList' = l
          /\ pc' = "loop"
          /\ ret' = ret
    /\ UNCHANGED <<cfg, filters, i, list, ids, dId, dList, file, later>>

\* Mutant of TagError: the call is made again for the same instance.
TagError_retry ==
    /\ ret' = ret
    /\ pc' = "loop"
    /\ UNCHANGED <<i, list, ids>>

\* Mutant of TagError: the loop is left and the entries built so far are
\* published.
TagError_break ==
    /\ ret' = ret
    /\ pc' = "loop"
    /\ i' = Len(instanceList) + 1
    /\ UNCHANGED <<list, ids>>

\* Lines 218-220: the tag call failed.
TagError ==
    /\ ret' = "ErrTag"
    /\ pc' = "done"
    /\ UNCHANGED <<i, list, ids>>

\* Lines 194-225: one iteration of the loop.  Dereferencing a nil PayMode
\* (line 212) or a nil InstanceId (line 217) panics before the tag call.
LoopBody ==
    /\ pc = "loop"
    /\ ~LoopDone(i, instanceList)
    /\ LET v == instanceList[i] IN
          IF v.PayMode = Nil \/ v.InstanceId = Nil
          THEN /\ ret' = "panic"
               /\ pc' = "done"
               /\ UNCHANGED <<i, list, ids, trace>>
          ELSE \E r \in TagResults :
                  /\ trace' = Append(trace, Event("DescribeResourceTags", TagRequest(v), r))
                  /\ IF r.err # "nil"
                     THEN TagError
                     ELSE /\ list' = Append(list, ListItem(v, r.val))
                          /\ ids' = AppendId(ids, v)
                          /\ i' = i + 1
                          /\ pc' = "loop"
                          /\ ret' = ret
    /\ UNCHANGED <<cfg, filters, instanceList, dId, dList, file, later>>

\* Line 227.
SetId ==
    /\ pc = "loop"
    /\ LoopDone(i, instanceList)
    /\ dId' = <<DataResourceIdsHash(ids)>>
    /\ trace' = Append(trace, Event("SetId", DataResourceIdsHash(ids), "nil"))
    /\ pc' = "setlist"
    /\ UNCHANGED <<cfg, filters, instanceList, i, list, ids, dList, file, ret, later>>

\* Lines 228-231: d.Set stores the list or reports an error, whatever the
\* list is.
SetInstanceList ==
    /\ pc = "setlist"
    /\ \/ /\ dList' = <<list>>
          /\ trace' = Append(trace, Event("Set", list, "nil"))
          /\ pc' = "output"
          /\ ret' = ret
       \/ /\ dList' = dList
          /\ trace' = Append(trace, Event("Set", list, "ErrSet"))
          /\ pc' = "done"
          /\ ret' = "ErrSet"
    /\ UNCHANGED <<cfg, filters, instanceList, i, list, ids, dId, file, later>>

\* Lines 232-237: the optional file and the return.
Output ==
    /\ pc = "output"
    /\ IF ShouldWrite(cfg)
       THEN \E e \in {"nil", "ErrWrite"} :
               /\ file' = Append(file, [path |-> GetOk(cfg.result_output_file, "").v,
                                        data |-> list, err |-> e])
               /\ trace' = Append(trace, Event("writeToFile", list, e))
               /\ ret' = e
       ELSE /\ ret' = "nil"
            /\ UNCHANGED <<file, trace>>
    /\ pc' = "done"
    /\ UNCHANGED <<cfg, filters, instanceList, i, list, ids, dId, dList, later>>

Next ==
    \/ ReadBegin
    \/ DescribeSqlserverInstances
    \/ LoopBody
    \/ SetId
    \/ SetInstanceList
    \/ Output

Spec == Init /\ [][Next]_vars

-----------------------------------------------------------------------------
(* What a read did, read off its trace *)

ListCalls == SelectSeq(trace, LAMBDA e : e.op = "DescribeSqlserverInstances")
TagCalls == SelectSeq(trace, LAMBDA e : e.op = "DescribeResourceTags")
SetIdCalls == SelectSeq(trace, LAMBDA e : e.op = "SetId")
SetCalls == SelectSeq(trace, LAMBDA e : e.op = "Set")
WriteCalls == SelectSeq(trace, LAMBDA e : e.op = "writeToFile")

Returned == pc = "done"
Success == pc = "done" /\ ret = "nil"
ListingOk == ListCalls # <<>> /\ ListCalls[1].res = "nil"
ListingFailed == ListCalls # <<>> /\ ListCalls[1].res # "nil"
SetFailed == \E p \in 1..Len(SetCalls) : SetCalls[p].res # "nil"
WriteFailed == \E p \in 1..Len(WriteCalls) : WriteCalls[p].res # "nil"
FileConfigured == cfg.result_output_file.set /\ cfg.result_output_file.val # ""

\* Entry e carries the fifteen attributes of instance v.
EntryCarries(e, v) ==
    /\ e.id = v.InstanceId
    /\ e.name = v.Name
    /\ e.project_id = v.ProjectId
    /\ e.storage = v.Storage
    /\ e.memory = v.Memory
    /\ e.availability_zone = v.Zone
    /\ e.create_time = v.CreateTime
    /\ e.vpc_id = v.UniqVpcId
    /\ e.subnet_id = v.UniqSubnetId
    /\ e.engine_version = v.Version
    /\ e.vip = v.Vip
    /\ e.vport = v.Vport
    /\ e.used_storage = v.UsedStorage
    /\ e.status = v.Status
    /\ e.cpu = v.Cpu

\* The InstanceIds of a listing, in its order.
InstanceIdsOf(l) == [k \in 1..Len(l) |-> Deref(l[k].InstanceId)]

-----------------------------------------------------------------------------
(* C1 *)

\* After a successful read instance_list has one entry per listed instance,
\* in listing order, entry k carrying the attributes of instance k.
C1_Mapping ==
    Success =>
        /\ dList # <<>>
        /\ Len(dList[1]) = Len(instanceList)
        /\ \A k \in 1..Len(instanceList) : EntryCarries(dList[1][k], instanceList[k])

\* C1 as stated: the mapping, and an empty listing yields an empty
\* instance_list and a successful read.
C1_AsStated ==
    /\ C1_Mapping
    /\ (Returned /\ ListingOk /\ instanceList = <<>>) => (ret = "nil" /\ dList = << <<>> >>)

\* C1 (amended): after a successful read instance_list has exactly one entry
\* per listed instance, in listing order, entry k carrying the attributes of
\* instance k; an empty listing makes no tag call, sets the ID, yields an
\* empty instance_list unless d.Set fails (instance_list then stays unset),
\* and a successful read unless d.Set or the write of a configured
\* result_output_file fails, in which case the read returns that error.
C1_InstanceListMirrorsListing ==
    /\ C1_Mapping
    /\ (Returned /\ ListingOk /\ instanceList = <<>>) =>
          /\ TagCalls = <<>>
          /\ dId # <<>>
          /\ ~SetFailed => dList = << <<>> >>
          /\ SetFailed => (dList = <<>> /\ ret = "ErrSet" /\ file = <<>>)
          /\ WriteFailed => (FileConfigured /\ ret = "ErrWrite")
          /\ (~SetFailed /\ ~WriteFailed) => ret = "nil"

\* A successful read of two different instances.
C1_Witness ==
    /\ Success
    /\ Len(instanceList) = 2
    /\ instanceList[1] # instanceList[2]
    /\ Len(dList[1]) = 2

-----------------------------------------------------------------------------
(* C2 *)

\* C2: the listing call receives every configured filter unchanged, and the
\* 'no filter' value (-1 for project_id, "" for the others) for an absent one.
C2_FiltersPassedUnchanged ==
    \A p \in 1..Len(ListCalls) :
        /\ ListCalls[p].arg.id = (IF cfg.id.set THEN cfg.id.val ELSE "")
        /\ ListCalls[p].arg.projectId = (IF cfg.project_id.set THEN cfg.project_id.val ELSE -1)
        /\ ListCalls[p].arg.vpcId = (IF cfg.vpc_id.set THEN cfg.vpc_id.val ELSE "")
        /\ ListCalls[p].arg.subnetId = (IF cfg.subnet_id.set THEN cfg.subnet_id.val ELSE "")

-----------------------------------------------------------------------------
(* C3 *)

\* C3: in a successful read there is exactly one tag call per listed
\* instance, call k keyed by the InstanceId of instance k, and the tags of
\* entry k are the result of call k.
C3_TagsPerInstance ==
    Success =>
        /\ Len(TagCalls) = Len(instanceList)
        /\ \A k \in 1..Len(instanceList) :
              /\ TagCalls[k].arg.resourceId = Deref(instanceList[k].InstanceId)
              /\ TagCalls[k].arg.serviceType = "sqlserver"
              /\ TagCalls[k].arg.resourceType = "instance"
              /\ TagCalls[k].res.err = "nil"
              /\ dList[1][k].tags = TagCalls[k].res.val

\* A successful read of two different instances whose tag calls returned
\* different tags.
C3_Witness ==
    /\ Success
    /\ Len(instanceList) = 2
    /\ instanceList[1].InstanceId # instanceList[2].InstanceId
    /\ Len(TagCalls) = 2
    /\ TagCalls[1].res.val # TagCalls[2].res.val
    /\ dList[1][1].tags # dList[1][2].tags

-----------------------------------------------------------------------------
(* C4 *)

\* C4: once set, the ID is DataResourceIdsHash of the InstanceIds of the
\* listing in listing order, whatever the other attributes, the tags, the
\* filters and result_output_file are.
C4_IdIsHashOfListedIds ==
    dId # <<>> => dId = <<DataResourceIdsHash(InstanceIdsOf(instanceList))>>

\* An ID set for two different instances, with tags, filters and an output
\* file in play.
C4_Witness ==
    /\ Success
    /\ dId # <<>>
    /\ Len(instanceList) = 2
    /\ instanceList[1].InstanceId # instanceList[2].InstanceId
    /\ \E k \in 1..Len(TagCalls) : TagCalls[k].res.val # {}
    /\ cfg.id.set /\ cfg.project_id.set /\ cfg.vpc_id.set /\ cfg.subnet_id.set
    /\ FileConfigured

-----------------------------------------------------------------------------
(* C5 *)

\* C5: writeToFile is called iff result_output_file is configured non-empty
\* and the read has set the ID and instance_list; it is called at most once,
\* with the list stored in instance_list; the read returns what the write
\* returned, the ID and instance_list staying set on a write error; with
\* result_output_file absent or empty nothing is written.
C5_FileWrittenIffConfigured ==
    /\ Len(file) <= 1
    /\ Returned => (Len(file) = 1 <=> (FileConfigured /\ dId # <<>> /\ dList # <<>>))
    /\ Len(file) = 1 =>
          /\ dId # <<>>
          /\ dList # <<>>
          /\ file[1].data = dList[1]
          /\ file[1].path = cfg.result_output_file.val
          /\ Returned
          /\ ret = file[1].err
    /\ ~FileConfigured => file = <<>>

\* A failed write of a non-empty list: the read returns the write's error
\* and d keeps the ID and the list.
C5_Witness ==
    /\ Returned
    /\ Len(file) = 1
    /\ file[1].err = "ErrWrite"
    /\ ret = "ErrWrite"
    /\ Len(file[1].data) = 2
    /\ dId # <<>>
    /\ dList # <<>>

-----------------------------------------------------------------------------
(* C6 *)

\* The place of a step in the stated order.
Stage(op) ==
    CASE op = "DescribeSqlserverInstances" -> 1
      [] op = "DescribeResourceTags" -> 2
      [] op = "SetId" -> 3
      [] op = "Set" -> 4
      [] op = "writeToFile" -> 5

\* C6: within a read the one listing call comes first, then the tag calls
\* one per instance in listing order, then the ID is set once the last tag
\* call returned, then instance_list, and the file write, if any, is last.
C6_StepsInOrder ==
    /\ Len(ListCalls) <= 1
    /\ trace # <<>> => trace[1].op = "DescribeSqlserverInstances"
    /\ \A p, q \in 1..Len(trace) :
          p < q => /\ Stage(trace[p].op) <= Stage(trace[q].op)
                   /\ Stage(trace[p].op) = Stage(trace[q].op) => trace[p].op = "DescribeResourceTags"
    /\ Len(TagCalls) <= Len(instanceList)
    /\ \A k \in 1..Len(TagCalls) :
          TagCalls[k].arg.resourceId = Deref(instanceList[k].InstanceId)
    /\ SetIdCalls # <<>> => Len(TagCalls) = Len(instanceList)
    /\ dId # <<>> <=> SetIdCalls # <<>>
    /\ dList # <<>> => (SetIdCalls # <<>> /\ SetCalls # <<>>)
    /\ file # <<>> <=> WriteCalls # <<>>
    /\ \A p \in 1..Len(trace) : trace[p].op = "writeToFile" => (p = Len(trace) /\ Returned)

\* A read that went through every step for two instances.
C6_Witness ==
    /\ Returned
    /\ Len(TagCalls) = 2
    /\ TagCalls[1].arg.resourceId # TagCalls[2].arg.resourceId
    /\ Len(trace) = 6
    /\ trace[6].op = "writeToFile"

-----------------------------------------------------------------------------
(* C7 *)

\* The first instance of l the loop cannot get past without a tag call:
\* one whose PayMode or InstanceId is nil; Len(l) + 1 when there is none.
FirstNil(l) ==
    IF \E k \in 1..Len(l) : l[k].PayMode = Nil \/ l[k].InstanceId = Nil
    THEN CHOOSE k \in 1..Len(l) :
            /\ l[k].PayMode = Nil \/ l[k].InstanceId = Nil
            /\ \A j \in 1..(k - 1) : l[j].PayMode # Nil /\ l[j].InstanceId # Nil
    ELSE Len(l) + 1

\* C7 as stated: every invocation makes exactly one listing call, with
\* instance type 1, and a fresh tag call for every listed instance; a failed
\* call is not repeated; the result depends on the read's own configuration
\* and responses only.
C7_AsStated ==
    /\ Len(ListCalls) <= 1
    /\ pc \notin {"idle", "list"} => Len(ListCalls) = 1
    /\ \A p \in 1..Len(ListCalls) : ListCalls[p].arg.instanceType = 1
    /\ Returned =>
          /\ Len(TagCalls) = Len(instanceList)
          /\ \A k \in 1..Len(instanceList) :
                TagCalls[k].arg.resourceId = Deref(instanceList[k].InstanceId)
    /\ \A p \in 1..Len(trace) :
          (/\ trace[p].op \in {"DescribeSqlserverInstances", "DescribeResourceTags"}
           /\ (IF trace[p].op = "DescribeResourceTags"
               THEN trace[p].res.err # "nil" ELSE trace[p].res # "nil"))
          => p = Len(trace)

\* C7 (amended): every read that got past its start made exactly one listing
\* call, with instance type 1, whatever earlier reads returned; its tag calls
\* are one fresh call per listed instance, in listing order, up to where the
\* read ends: every listed instance unless a tag call fails or an instance
\* has a nil PayMode or InstanceId, instances 1..k when the k-th tag call
\* fails, and the instances before the first nil one when the read panics
\* there; a failed call is the last call of its read; a successful read's
\* result is the function of its own listing and its own tag results.
C7_NoCacheNoRetry ==
    /\ Len(ListCalls) <= 1
    /\ pc \notin {"idle", "list"} => Len(ListCalls) = 1
    /\ \A p \in 1..Len(ListCalls) : ListCalls[p].arg.instanceType = 1
    /\ Len(TagCalls) <= Len(instanceList)
    /\ pc = "loop" => Len(TagCalls) = i - 1
    /\ \A k \in 1..Len(TagCalls) :
          TagCalls[k].arg.resourceId = Deref(instanceList[k].InstanceId)
    /\ \A p \in 1..Len(trace) :
          (/\ trace[p].op \in {"DescribeSqlserverInstances", "DescribeResourceTags"}
           /\ (IF trace[p].op = "DescribeResourceTags"
               THEN trace[p].res.err # "nil" ELSE trace[p].res # "nil"))
          => (p = Len(trace) /\ Returned /\ ret # "nil")
    /\ (Returned /\ ListingOk) =>
          LET n == Len(TagCalls) IN
          /\ n < FirstNil(instanceList)
          /\ \/ n = FirstNil(instanceList) - 1
             \/ TagCalls[n].res.err # "nil"
          /\ ret = "ErrTag" <=> (n >= 1 /\ TagCalls[n].res.err # "nil")
          /\ ret = "panic" <=>
                (/\ FirstNil(instanceList) <= Len(instanceList)
                 /\ n = FirstNil(instanceList) - 1
                 /\ \A k \in 1..n : TagCalls[k].res.err = "nil")
          /\ ret \in {"nil", "ErrSet", "ErrWrite"} =>
                (n = Len(instanceList) /\ \A k \in 1..n : TagCalls[k].res.err = "nil")
    /\ Success =>
          /\ Len(TagCalls) = Len(instanceList)
          /\ dList = << [k \in 1..Len(instanceList) |->
                            ListItem(instanceList[k], TagCalls[k].res.val)] >>
          /\ dId = <<DataResourceIdsHash(InstanceIdsOf(instanceList))>>

\* A successful read that follows an earlier read: it listed the same
\* instance twice and called the tag service for each occurrence.
C7_Witness ==
    /\ Success
    /\ later
    /\ Len(instanceList) = 2
    /\ instanceList[1] = instanceList[2]
    /\ Len(TagCalls) = 2
    /\ TagCalls[1].arg = TagCalls[2].arg
    /\ TagCalls[1].res # TagCalls[2].res

-----------------------------------------------------------------------------
(* C8 *)

\* C8: when the tag call for the k-th instance fails the read has returned
\* that error: k tag calls were made, for instances 1..k, the ID and
\* instance_list are unset and no file is written.
C8_TagFailureNoPartialResult ==
    \A k \in 1..Len(TagCalls) :
        TagCalls[k].res.err # "nil" =>
            /\ Returned
            /\ ret = TagCalls[k].res.err
            /\ Len(TagCalls) = k
            /\ k <= Len(instanceList)
            /\ \A j \in 1..k : TagCalls[j].arg.resourceId = Deref(instanceList[j].InstanceId)
            /\ dId = <<>>
            /\ dList = <<>>
            /\ file = <<>>
            /\ WriteCalls = <<>>

\* The second tag call failed with an entry already built and an output
\* file configured.
C8_Witness ==
    /\ Returned
    /\ ret = "ErrTag"
    /\ Len(TagCalls) = 2
    /\ TagCalls[2].res.err = "ErrTag"
    /\ Len(list) = 1
    /\ FileConfigured

-----------------------------------------------------------------------------
(* C9 *)

\* C9: when the listing fails the read has returned that error and did
\* nothing else: no tag call, no ID, no instance_list, no file.
C9_ListFailureNoEffect ==
    ListingFailed =>
        /\ Returned
        /\ ret = ListCalls[1].res
        /\ Len(trace) = 1
        /\ TagCalls = <<>>
        /\ dId = <<>>
        /\ dList = <<>>
        /\ file = <<>>

\* A failed listing with an output file configured.
C9_Witness ==
    /\ Returned
    /\ ListingFailed
    /\ ret = "ErrList"
    /\ FileConfigured

-----------------------------------------------------------------------------
(* C10 *)

\* C10: every entry has a charge_type, COMMON_PAYTYPE_PREPAID exactly when
\* the instance's PayMode is 1 and COMMON_PAYTYPE_POSTPAID otherwise.
C10_ChargeTypeTwoValued ==
    /\ Len(list) <= Len(instanceList)
    /\ \A k \in 1..Len(list) :
          /\ "charge_type" \in DOMAIN list[k]
          /\ list[k].charge_type \in {COMMON_PAYTYPE_PREPAID, COMMON_PAYTYPE_POSTPAID}
          /\ list[k].charge_type = COMMON_PAYTYPE_PREPAID <=> Deref(instanceList[k].PayMode) = 1
          /\ list[k].charge_type = COMMON_PAYTYPE_POSTPAID <=> Deref(instanceList[k].PayMode) # 1
    /\ dList # <<>> => dList[1] = list

\* A stored list with a prepaid instance and one with an unknown PayMode.
C10_Witness ==
    /\ dList # <<>>
    /\ Len(dList[1]) = 2
    /\ \E k \in 1..2 : Deref(instanceList[k].PayMode) = 1
    /\ \E k \in 1..2 : Deref(instanceList[k].PayMode) \notin {0, 1}
    /\ \E k \in 1..2 : dList[1][k].charge_type = COMMON_PAYTYPE_POSTPAID

====
